---- MODULE Spec2Model ----
(***************************************************************************)
(* The three browser verification scripts of jules-scratch/verification:   *)
(*   verify_chat.py, verify_chat_ui.py, verify_supervisor_chat.py.         *)
(*                                                                         *)
(* A run executes the statements of one script top to bottom.  A statement *)
(* either completes, and control falls to the next line, or raises; no     *)
(* script has a try/except/finally, so a raised exception ends the process *)
(* with exit code 1.  The target application is the environment: whether   *)
(* the server answers, which elements it serves and when the awaited       *)
(* content is rendered.  Time is counted in milliseconds from the moment   *)
(* page.goto returned; statements other than the bounded waits take no     *)
(* model time.  The browser and the local disk are taken to work: launch,  *)
(* new_context, new_page, sleep, screenshot and close always complete.     *)
(* Runs follow each other on one file system, so a screenshot left by one  *)
(* run is seen by the next.                                                *)
(***************************************************************************)
EXTENDS Integers, Sequences, FiniteSets

VARIABLES
    runs,       \* number of script invocations started so far
    script,     \* the script of the current (or last) invocation
    status,     \* "idle" | "running" | "exited"
    pc,         \* index in Program(script) of the statement to execute next
    env,        \* the target application as this run meets it
    now,        \* ms elapsed since page.goto returned
    stepStart,  \* value of now when the statement at pc began
    log,        \* statements executed by this run, in order, with outcome
    exitCode,   \* process exit code of the run, NoExit while it runs
    files,      \* file system: screenshot path -> content
    captures    \* every page.screenshot call so far, in order, over all runs

vars == <<runs, script, status, pc, env, now, stepStart, log, exitCode,
          files, captures>>

----------------------------------------------------------------------------
\* Bounds of the model

MaxRuns == 3

TickMs == 5000

----------------------------------------------------------------------------
\* Constants of the scripts

MainTimeoutMs == 10000

TextTimeoutMs == 10000

ResponseTimeoutMs == 30000

Never == 0 - 1

NoExit == 0 - 1

Scripts == {"verify_chat", "verify_chat_ui", "verify_supervisor_chat"}

VerificationPng == "jules-scratch/verification/verification.png"

SupervisorPng == "jules-scratch/verification/supervisor_chat.png"

Paths == {VerificationPng, SupervisorPng}

\* path argument of page.screenshot in each script
ScreenshotPath(s) ==
    IF s = "verify_supervisor_chat" THEN SupervisorPng ELSE VerificationPng

\* verify_chat with an assertion on the response in front of the capture
ProgramAssertingChat(s) ==
    CASE s = "verify_chat" ->
           <<"launch", "new_context", "new_page", "sleep", "goto",
             "click_input", "fill", "click_send", "expect_response",
             "screenshot", "close">>
      [] s = "verify_chat_ui" ->
           <<"launch", "new_page", "goto", "expect_main", "expect_text",
             "screenshot", "close">>
      [] OTHER ->
           <<"launch", "new_page", "goto", "fill", "click_send",
             "expect_response", "screenshot", "close">>

\* the scripts with the page.screenshot line dropped
ProgramNoCapture(s) ==
    CASE s = "verify_chat" ->
           <<"launch", "new_context", "new_page", "sleep", "goto",
             "click_input", "fill", "click_send", "close">>
      [] s = "verify_chat_ui" ->
           <<"launch", "new_page", "goto", "expect_main", "expect_text",
             "close">>
      [] OTHER ->
           <<"launch", "new_page", "goto", "fill", "click_send",
             "expect_response", "close">>

\* the scripts with browser.close moved in front of page.screenshot
ProgramCloseFirst(s) ==
    CASE s = "verify_chat" ->
           <<"launch", "new_context", "new_page", "sleep", "goto",
             "click_input", "fill", "click_send", "close", "screenshot">>
      [] s = "verify_chat_ui" ->
           <<"launch", "new_page", "goto", "expect_main", "expect_text",
             "close", "screenshot">>
      [] OTHER ->
           <<"launch", "new_page", "goto", "fill", "click_send",
             "expect_response", "close", "screenshot">>

\* the statements of each script, in source order
Program(s) ==
    CASE s = "verify_chat" ->
           <<"launch", "new_context", "new_page", "sleep", "goto",
             "click_input", "fill", "click_send", "screenshot", "close">>
      [] s = "verify_chat_ui" ->
           <<"launch", "new_page", "goto", "expect_main", "expect_text",
             "screenshot", "close">>
      [] OTHER ->
           <<"launch", "new_page", "goto", "fill", "click_send",
             "expect_response", "screenshot", "close">>

ExpectSteps == {"expect_main", "expect_text", "expect_response"}

\* timeout= argument of each expect call
ExpectTimeout(step) ==
    CASE step = "expect_main" -> MainTimeoutMs
      [] step = "expect_text" -> TextTimeoutMs
      [] OTHER -> ResponseTimeoutMs

\* the moment the application makes the awaited condition true
ExpectAt(step, e) ==
    CASE step = "expect_main" -> e.mainAt
      [] step = "expect_text" -> e.textAt
      [] OTHER -> e.responseAt

----------------------------------------------------------------------------
\* The target application

Min(a, b) == IF a < b THEN a ELSE b

\* the instants up to limit at which the application may render
Grid(limit) == {k * TickMs : k \in 0..(limit \div TickMs)}

Unreachable ==
    [reachable |-> FALSE, inputPresent |-> FALSE, buttonPresent |-> FALSE,
     mainAt |-> Never, textAt |-> Never, responseAt |-> Never]

\* the applications a run of script s can meet: a server that does not
\* answer serves nothing; otherwise only what s looks at is varied, except
\* the response of verify_chat, which the script never looks at
EnvsFor(s) ==
    {Unreachable} \cup
    CASE s = "verify_chat" ->
           [reachable : {TRUE}, inputPresent : BOOLEAN,
            buttonPresent : BOOLEAN, mainAt : {Never}, textAt : {Never},
            responseAt : {Never, 0}]
      [] s = "verify_chat_ui" ->
           [reachable : {TRUE}, inputPresent : {FALSE},
            buttonPresent : {FALSE},
            mainAt : Grid(MainTimeoutMs + TickMs) \cup {Never},
            textAt : Grid(MainTimeoutMs + TextTimeoutMs + TickMs)
                       \cup {Never},
            responseAt : {Never}]
      [] OTHER ->
           [reachable : {TRUE}, inputPresent : BOOLEAN,
            buttonPresent : BOOLEAN, mainAt : {Never}, textAt : {Never},
            responseAt : Grid(ResponseTimeoutMs + TickMs) \cup {Never}]

----------------------------------------------------------------------------
\* The file system

NoFile == [script |-> "none", run |-> 0]

\* a screenshot that is not written when the file already exists
WriteFileKeepExisting(fs, path, content) ==
    IF fs[path] = NoFile THEN [fs EXCEPT ![path] = content] ELSE fs

\* page.screenshot(path=...) creates the file or overwrites it
WriteFile(fs, path, content) == [fs EXCEPT ![path] = content]

----------------------------------------------------------------------------
\* Control flow

Running == status = "running"

CurStep ==
    IF Running /\ pc <= Len(Program(script)) THEN Program(script)[pc]
    ELSE "none"

\* the statement completes and control falls to the next line
Advance(step) ==
    /\ pc' = pc + 1
    /\ stepStart' = now
    /\ log' = Append(log, [step |-> step, ok |-> TRUE, at |-> now])
    /\ UNCHANGED <<status, exitCode>>

\* the exception is caught and ignored, the script goes on
RaiseSwallowed(step) ==
    /\ pc' = pc + 1
    /\ stepStart' = now
    /\ log' = Append(log, [step |-> step, ok |-> FALSE, at |-> now])
    /\ UNCHANGED <<status, exitCode>>

\* the statement raises; nothing catches it, the interpreter exits with 1
Raise(step) ==
    /\ status' = "exited"
    /\ exitCode' = 1
    /\ log' = Append(log, [step |-> step, ok |-> FALSE, at |-> now])
    /\ UNCHANGED <<pc, stepStart>>

\* a wait whose budget is twice the timeout= argument
DeadlineDoubled(start, timeout) == start + 2 * timeout

\* the moment a bounded wait that began at start gives up
Deadline(start, timeout) == start + timeout

\* the awaited condition is true on the page
Holds(at) == at # Never /\ at <= now

\* a wait that never gives up
ExpectTimedOutNever(start, timeout, at) == FALSE

\* the wait gives up: its budget is spent and the condition did not become
\* true before the deadline (at the deadline itself either may win)
ExpectTimedOut(start, timeout, at) ==
    /\ now >= Deadline(start, timeout)
    /\ (at = Never \/ at >= Deadline(start, timeout))

----------------------------------------------------------------------------
\* Initial state and the start of a run

Init ==
    /\ runs = 0
    /\ script = "verify_chat"
    /\ status = "idle"
    /\ pc = 1
    /\ env = Unreachable
    /\ now = 0
    /\ stepStart = 0
    /\ log = <<>>
    /\ exitCode = NoExit
    /\ files = [p \in Paths |-> NoFile]
    /\ captures = <<>>

\* python <script>.py against some state of the target application
StartRun ==
    /\ status # "running"
    /\ runs < MaxRuns
    /\ \E s \in Scripts : \E e \in EnvsFor(s) :
         /\ script' = s
         /\ env' = e
    /\ runs' = runs + 1
    /\ status' = "running"
    /\ pc' = 1
    /\ now' = 0
    /\ stepStart' = 0
    /\ log' = <<>>
    /\ exitCode' = NoExit
    /\ UNCHANGED <<files, captures>>

----------------------------------------------------------------------------
\* The statements

\* playwright.chromium.launch(headless=True)
Launch ==
    /\ CurStep = "launch"
    /\ Advance("launch")
    /\ UNCHANGED <<runs, script, env, now, files, captures>>

\* browser.new_context()
NewContext ==
    /\ CurStep = "new_context"
    /\ Advance("new_context")
    /\ UNCHANGED <<runs, script, env, now, files, captures>>

\* browser.new_page() / context.new_page()
NewPage ==
    /\ CurStep = "new_page"
    /\ Advance("new_page")
    /\ UNCHANGED <<runs, script, env, now, files, captures>>

\* time.sleep(5)
Sleep ==
    /\ CurStep = "sleep"
    /\ Advance("sleep")
    /\ UNCHANGED <<runs, script, env, now, files, captures>>

\* page.goto(url): raises when the server does not answer
Goto ==
    /\ CurStep = "goto"
    /\ IF env.reachable THEN Advance("goto") ELSE Raise("goto")
    /\ UNCHANGED <<runs, script, env, now, files, captures>>

\* page.get_by_placeholder(...).click()
ClickInput ==
    /\ CurStep = "click_input"
    /\ IF env.inputPresent THEN Advance("click_input")
       ELSE Raise("click_input")
    /\ UNCHANGED <<runs, script, env, now, files, captures>>

\* page.get_by_placeholder(...).fill(text)
Fill ==
    /\ CurStep = "fill"
    /\ IF env.inputPresent THEN Advance("fill") ELSE Raise("fill")
    /\ UNCHANGED <<runs, script, env, now, files, captures>>

\* page.get_by_role("button", name=...).click()
ClickSend ==
    /\ CurStep = "click_send"
    /\ IF env.buttonPresent THEN Advance("click_send")
       ELSE Raise("click_send")
    /\ UNCHANGED <<runs, script, env, now, files, captures>>

\* expect(locator).to_be_visible / to_contain_text with timeout=:
\* returns once the condition is observed, raises once it timed out
Expect(step) ==
    /\ CurStep = step
    /\ \/ /\ Holds(ExpectAt(step, env))
          /\ Advance(step)
       \/ /\ ExpectTimedOut(stepStart, ExpectTimeout(step),
                            ExpectAt(step, env))
          /\ Raise(step)
    /\ UNCHANGED <<runs, script, env, now, files, captures>>

ExpectMain == Expect("expect_main")

ExpectText == Expect("expect_text")

ExpectResponse == Expect("expect_response")

\* time passes while a bounded wait polls, at most up to its deadline
Tick ==
    /\ CurStep \in ExpectSteps
    /\ ~Holds(ExpectAt(CurStep, env))
    /\ now < Deadline(stepStart, ExpectTimeout(CurStep))
    /\ now' = Min(now + TickMs, Deadline(stepStart, ExpectTimeout(CurStep)))
    /\ UNCHANGED <<runs, script, status, pc, env, stepStart, log, exitCode,
                   files, captures>>

\* page.screenshot(path=...)
Screenshot ==
    /\ CurStep = "screenshot"
    /\ files' = WriteFile(files, ScreenshotPath(script),
                          [script |-> script, run |-> runs])
    /\ captures' = Append(captures,
                          [path |-> ScreenshotPath(script),
                           script |-> script, run |-> runs])
    /\ Advance("screenshot")
    /\ UNCHANGED <<runs, script, env, now>>

\* browser.close()
Close ==
    /\ CurStep = "close"
    /\ Advance("close")
    /\ UNCHANGED <<runs, script, env, now, files, captures>>

\* control runs off the end of the script: the interpreter exits with 0
ExitNormally ==
    /\ Running
    /\ pc = Len(Program(script)) + 1
    /\ status' = "exited"
    /\ exitCode' = 0
    /\ UNCHANGED <<runs, script, pc, env, now, stepStart, log, files,
                   captures>>

Step ==
    \/ Launch
    \/ NewContext
    \/ NewPage
    \/ Sleep
    \/ Goto
    \/ ClickInput
    \/ Fill
    \/ ClickSend
    \/ ExpectMain
    \/ ExpectText
    \/ ExpectResponse
    \/ Screenshot
    \/ Close
    \/ ExitNormally

Next ==
    \/ StartRun
    \/ Step
    \/ Tick

Spec == Init /\ [][Next]_vars

\* a started script keeps executing and time keeps passing
FairSpec == Spec /\ WF_vars(Step) /\ WF_vars(Tick)

----------------------------------------------------------------------------
\* Vocabulary of the properties

Exited == status = "exited"

\* the run executed the statement, whatever the outcome
Attempted(step) == \E i \in 1..Len(log) : log[i].step = step

\* the run executed the statement and it completed
Did(step) == \E i \in 1..Len(log) : log[i].step = step /\ log[i].ok

\* the statement raised
Failed(step) == \E i \in 1..Len(log) : log[i].step = step /\ ~log[i].ok

\* the place of the statement in the run
Pos(step) == CHOOSE i \in 1..Len(log) : log[i].step = step

\* the moment the statement completed or raised
DoneAt(step) == log[Pos(step)].at

LastEntry == log[Len(log)]

ThisCapture == [script |-> script, run |-> runs]

\* some file on disk was written by the current run
WroteFile == \E p \in Paths : files[p].run = runs

CapturesOfThisRun == {i \in 1..Len(captures) : captures[i].run = runs}

----------------------------------------------------------------------------
\* C1: in a run against a server that never answers, page.goto raises, the
\* run never gets past it, the screenshot statement is not executed, the
\* run writes no file, it always has a next statement to execute until it
\* has exited, and it exits with code 1.
C1_UnreachableFailsWithoutScreenshot ==
    (status # "idle" /\ ~env.reachable) =>
        /\ ~Attempted("screenshot")
        /\ ~WroteFile
        /\ CapturesOfThisRun = {}
        /\ Running => ENABLED Step
        /\ Exited => (exitCode = 1 /\ LastEntry.step = "goto" /\ ~LastEntry.ok)

C1_Witness ==
    /\ Exited
    /\ ~env.reachable
    /\ Failed("goto")
    /\ script = "verify_chat_ui"

----------------------------------------------------------------------------
\* the application a passing run needs: the server answers, the located
\* elements exist, every awaited condition becomes true before the deadline
\* of its wait (the wait for the agent text starts when main was seen)
CorrectApp ==
    /\ env.reachable
    /\ CASE script = "verify_chat" ->
              env.inputPresent /\ env.buttonPresent
         [] script = "verify_chat_ui" ->
              /\ env.mainAt # Never /\ env.mainAt < MainTimeoutMs
              /\ env.textAt # Never
              /\ env.textAt < env.mainAt + TextTimeoutMs
         [] OTHER ->
              /\ env.inputPresent /\ env.buttonPresent
              /\ env.responseAt # Never
              /\ env.responseAt < ResponseTimeoutMs

\* C2: in a run against a correctly running application (the server
\* answers, the located elements exist, every awaited condition becomes true
\* before its wait's deadline) the run always has a next step until it has
\* exited, it exits with code 0, and it executed the screenshot statement
\* exactly once, writing the file at the script's path.

C2_CorrectAppPassesWithOneScreenshot ==
    (status # "idle" /\ CorrectApp) =>
        /\ Running => ENABLED (Step \/ Tick)
        /\ \A i \in 1..Len(log) : log[i].ok
        /\ Exited =>
            /\ exitCode = 0
            /\ Cardinality({i \in 1..Len(log) :
                              log[i].step = "screenshot"}) = 1
            /\ Cardinality(CapturesOfThisRun) = 1
            /\ files[ScreenshotPath(script)] = ThisCapture
            /\ \A p \in Paths \ {ScreenshotPath(script)} :
                   files[p].run # runs

C2_Witness ==
    /\ Exited
    /\ CorrectApp
    /\ script = "verify_chat_ui"
    /\ env.mainAt > 0
    /\ env.textAt > env.mainAt
    /\ exitCode = 0
    /\ files[VerificationPng] = ThisCapture

----------------------------------------------------------------------------
\* C3: once chromium.launch has returned, browser.close has been executed
\* by the time the run has exited, on every exit path.
C3_CloseOnEveryExitPath ==
    (Exited /\ Did("launch")) => Attempted("close")

----------------------------------------------------------------------------
\* C4: in verify_chat_ui and verify_supervisor_chat, a bounded wait that
\* timed out is the last statement the run executes: it is executed once
\* (not retried), nothing catches it, the screenshot statement is not
\* executed, the run writes no file and it has exited with code 1.
C4_TimedOutWaitAbortsTheScript ==
    (script \in {"verify_chat_ui", "verify_supervisor_chat"}
       /\ \E w \in ExpectSteps : Failed(w)) =>
        /\ Exited
        /\ exitCode = 1
        /\ LastEntry.step \in ExpectSteps /\ ~LastEntry.ok
        /\ Cardinality({i \in 1..Len(log) :
                          log[i].step = LastEntry.step}) = 1
        /\ ~Attempted("screenshot")
        /\ ~Attempted("close")
        /\ ~WroteFile

C4_Witness ==
    /\ Exited
    /\ script = "verify_supervisor_chat"
    /\ Failed("expect_response")
    /\ env.responseAt # Never

----------------------------------------------------------------------------
\* C5: every run of verify_chat_ui terminates: a running verify_chat_ui
\* eventually has exited; no bounded wait is still pending after its
\* deadline; and when the page loaded but the agent text never appears, the
\* run has ended with a wait that timed out and with exit code 1.
C5_ChatUiTerminates ==
    /\ (script = "verify_chat_ui" /\ Running) ~> Exited
    /\ [](CurStep \in ExpectSteps =>
            now <= stepStart + ExpectTimeout(CurStep))
    /\ []((Exited /\ script = "verify_chat_ui" /\ env.reachable
             /\ env.textAt = Never) =>
            /\ exitCode = 1
            /\ LastEntry.step \in {"expect_main", "expect_text"}
            /\ ~LastEntry.ok
            /\ LastEntry.at = DoneAt("goto") + MainTimeoutMs
                 \/ LastEntry.at = DoneAt("expect_main") + TextTimeoutMs)

C5_Witness ==
    /\ Exited
    /\ script = "verify_chat_ui"
    /\ env.textAt = Never
    /\ Did("expect_main")
    /\ Failed("expect_text")
    /\ exitCode = 1

----------------------------------------------------------------------------
\* C6 as stated: verify_chat_ui reaches the screenshot statement only if the
\* agent text became visible within 10 seconds of the page load.
C6_TextWithinTenSecondsOfLoad ==
    (script = "verify_chat_ui" /\ Did("expect_text")) =>
        /\ env.textAt # Never
        /\ env.textAt <= DoneAt("goto") + 10000

\* C6 as amended: verify_chat_ui reaches the screenshot statement only if
\* the agent text became visible within 10 seconds of the start of the wait
\* for it, and that wait starts when the main element was seen, up to 10
\* seconds after the load: so within 20 seconds of the load.
C6_TextWithinTenSecondsOfItsWait ==
    (script = "verify_chat_ui" /\ Did("expect_text")) =>
        /\ env.textAt # Never
        /\ env.textAt <= DoneAt("expect_text")
        /\ DoneAt("expect_text") <= DoneAt("expect_main") + 10000
        /\ DoneAt("expect_main") <= DoneAt("goto") + 10000
        /\ env.textAt <= DoneAt("goto") + 20000

C6_Witness ==
    /\ Exited
    /\ script = "verify_chat_ui"
    /\ exitCode = 0
    /\ Did("screenshot")
    /\ env.mainAt > 0
    /\ env.textAt > DoneAt("goto") + 10000

----------------------------------------------------------------------------
\* C7: verify_supervisor_chat executes the screenshot statement, and writes
\* supervisor_chat.png, only in a run where the fill completed, then the
\* click on Send, then the wait observed the awaited text in the last
\* bg-gray-200 element within 30 seconds of the wait's start; a run that
\* has ended otherwise wrote no file, and if it got to the wait, the wait
\* raised.
C7_SupervisorCapturesOnlyAfterResponse ==
    script = "verify_supervisor_chat" =>
        /\ (Attempted("screenshot") \/ WroteFile) =>
              /\ Did("fill") /\ Did("click_send") /\ Did("expect_response")
              /\ Pos("fill") < Pos("click_send")
              /\ Pos("click_send") < Pos("expect_response")
              /\ Pos("expect_response") < Pos("screenshot")
              /\ env.responseAt # Never
              /\ env.responseAt <= DoneAt("expect_response")
              /\ DoneAt("expect_response") <= DoneAt("click_send") + 30000
        /\ (Exited /\ ~Did("expect_response")) =>
              /\ ~Attempted("screenshot")
              /\ ~WroteFile
              /\ exitCode = 1
              /\ Did("click_send") => Failed("expect_response")

C7_Witness ==
    /\ Exited
    /\ script = "verify_supervisor_chat"
    /\ exitCode = 0
    /\ files[SupervisorPng] = ThisCapture
    /\ env.responseAt > 0
    /\ DoneAt("expect_response") >= env.responseAt

----------------------------------------------------------------------------
\* C8: verify_chat captures without asserting: whenever the server answers
\* and the input and the send button exist, the run executes no wait, writes
\* verification.png and exits with code 0, whether or not the application
\* ever renders a response.
C8_ChatCapturesWithoutAsserting ==
    (script = "verify_chat" /\ status # "idle") =>
        /\ \A w \in ExpectSteps : ~Attempted(w)
        /\ (Exited /\ env.reachable /\ env.inputPresent
              /\ env.buttonPresent) =>
              /\ exitCode = 0
              /\ files[VerificationPng] = ThisCapture

C8_Witness ==
    /\ Exited
    /\ script = "verify_chat"
    /\ env.responseAt = Never
    /\ Did("click_send")
    /\ exitCode = 0
    /\ files[VerificationPng] = ThisCapture

----------------------------------------------------------------------------
\* The states of a run, read off the statements it has completed

Navigated == Did("goto")

Asserted ==
    IF script = "verify_chat_ui" THEN Did("expect_text")
    ELSE Did("expect_response")

Captured == Did("screenshot")

Closed == Did("close")

\* the state a statement belongs to
StepRank(step) ==
    CASE step \in {"launch", "new_context", "new_page", "sleep"} -> 0
      [] step \in {"goto", "click_input", "fill", "click_send"} -> 1
      [] step \in ExpectSteps -> 2
      [] step = "screenshot" -> 3
      [] OTHER -> 4

\* C9 as stated: in every script the capture never happens before
\* navigation and before the asserted state has been reached, and the close
\* never happens before the capture.
C9_CaptureOnlyAfterAssertion ==
    /\ Captured => (Navigated /\ Asserted)
    /\ Closed => Captured

\* C9 as amended: every run executes its statements in the order not
\* started, navigated, asserted, captured, closed, never going back and
\* executing none twice; the capture never happens before navigation, the
\* close never before the capture; in verify_chat_ui and
\* verify_supervisor_chat the capture never happens before the asserted
\* state, while verify_chat has no asserted state and goes from navigated
\* straight to captured.
C9_StatesInOrder ==
    /\ \A i, j \in 1..Len(log) :
          i < j => /\ StepRank(log[i].step) <= StepRank(log[j].step)
                   /\ log[i].step # log[j].step
    /\ Captured => Navigated
    /\ Closed => Captured
    /\ (Captured /\ script # "verify_chat") => Asserted
    /\ script = "verify_chat" => ~Asserted

C9_Witness ==
    /\ Exited
    /\ script = "verify_chat"
    /\ Closed
    /\ Captured
    /\ ~Asserted

----------------------------------------------------------------------------
\* the last screenshot taken at a path, NoFile when there was none
LastCapture(p) ==
    LET at == {i \in 1..Len(captures) : captures[i].path = p}
    IN IF at = {} THEN NoFile
       ELSE LET last == CHOOSE i \in at : \A k \in at : k <= i
            IN [script |-> captures[last].script, run |-> captures[last].run]

\* C10: only the screenshot statement changes a file, so a run that fails
\* before its capture leaves the file at its path as it found it; after any
\* sequence of runs each path holds the capture of the most recent run that
\* executed its screenshot statement on that path, and a run that has
\* failed without capturing has left no file of its own.
C10_FilesHoldTheMostRecentCapture ==
    /\ [][CurStep # "screenshot" => files' = files]_vars
    /\ [](\A p \in Paths : files[p] = LastCapture(p))
    /\ []((Exited /\ ~Attempted("screenshot")) => ~WroteFile)

C10_Witness ==
    /\ runs = 3
    /\ Exited
    /\ script = "verify_chat_ui"
    /\ exitCode = 1
    /\ ~Attempted("screenshot")
    /\ files[VerificationPng].script = "verify_chat"
    /\ files[VerificationPng].run = 2
    /\ Len(captures) = 2
    /\ captures[1].path = VerificationPng

====
